---- MODULE Spec2Model ----
(***************************************************************************)
(* Model of pythia/tasks/datasets/vqa2/dataset.py: the construction of a   *)
(* VQA2Dataset, its __getitem__ and the helper compute_answer_scores.      *)
(*                                                                         *)
(* Python dicts (a metadata record, the mapping returned by the feature    *)
(* store, data_params, the returned sample) are functions whose DOMAIN is  *)
(* the set of keys present.  Numpy arrays and Python lists are sequences   *)
(* (position i of the code is position i+1 here).  Soft answer scores are  *)
(* kept in tenths (3 stands for 0.3, 10 for 1.0).                          *)
(***************************************************************************)
EXTENDS Integers, Sequences, FiniteSets, TLC

VARIABLES imdb_file, imdb, feature_store, ctor_args, data_params, self, loaded, raised,
          sample, module_list, last_idx, ncalls, fn_args, scores

vars == <<imdb_file, imdb, feature_store, ctor_args, data_params, self, loaded, raised,
          sample, module_list, last_idx, ncalls, fn_args, scores>>

(* ---------------------------- bounds ----------------------------------- *)
MaxQ == 3
MaxT == 2
MaxLayout == 4
MaxAnn == 11
MaxSlots == 4
MaxCalls == 2
MaxScoreAnn == 5

(* ------------------------ program constants ---------------------------- *)
imdb_version == 1
NumValidAnswers == 10

None == "None"
EmptyDict == [k \in {} |-> 0]

Min(a, b) == IF a <= b THEN a ELSE b

SeqUpTo(S, n) == UNION {[1..k -> S] : k \in 0..n}

Range(s) == {s[i] : i \in 1..Len(s)}

Rep(x, n) == [i \in 1..n |-> x]

(* ------------------------ external collaborators ----------------------- *)
\* VocabDict: token -> index, unknown tokens degrade to UNK_idx.
word2idx(vocab, w) ==
  IF \E i \in 1..Len(vocab.word_list) : vocab.word_list[i] = w
  THEN (CHOOSE i \in 1..Len(vocab.word_list) : vocab.word_list[i] = w) - 1
  ELSE vocab.UNK_idx

num_vocab(vocab) == Len(vocab.word_list)

vocab_dict == [word_list |-> <<"<unk>", "what", "color">>, UNK_idx |-> 0]
answer_dict == [word_list |-> <<"<unk>", "yes", "no">>, UNK_idx |-> 0]
layout_dict == [word_list |-> <<"<eos>", "_Find", "_Filter", "_Describe">>, UNK_idx |-> 0]

\* assembler.module_list2tokens: token ids, padded/cut to T.
module_list2tokens(toks, T) ==
  [i \in 1..T |-> IF i <= Len(toks) THEN word2idx(layout_dict, toks[i]) ELSE 0]

(* --------------------------- numpy helpers ----------------------------- *)
\* arr[:n] = vals ; "" when fine, an error name when shapes do not match
SliceAssignErr_silent(arr, n, vals) == ""

SliceAssignErr(arr, n, vals) ==
  LET sl == Min(n, Len(arr))
  IN IF Len(vals) = sl \/ Len(vals) = 1 THEN "" ELSE "ValueError"

SliceAssign(arr, n, vals) ==
  LET sl == Min(n, Len(arr))
  IN [i \in 1..Len(arr) |->
        IF i <= sl THEN (IF Len(vals) = 1 THEN vals[1] ELSE vals[i]) ELSE arr[i]]

(* ----------------------- compute_answer_scores ------------------------- *)
RECURSIVE count(_, _)
count(answers, a) ==
  IF answers = <<>> THEN 0
  ELSE (IF Head(answers) = a THEN 1 ELSE 0) + count(Tail(answers), a)

compute_answer_scores_nounk(answers, num_of_answers, unk_idx) ==
  [i \in 1..num_of_answers |->
     IF (i - 1) \in Range(answers) THEN Min(count(answers, i - 1) * 3, 10) ELSE 0]

compute_answer_scores(answers, num_of_answers, unk_idx) ==
  [i \in 1..num_of_answers |->
     IF (i - 1) \in Range(answers)
     THEN IF (i - 1) = unk_idx THEN 0
          ELSE Min(count(answers, i - 1) * 3, 10)
     ELSE 0]

(* ------------------------------ __init__ ------------------------------- *)
\* self.imdb before the index database is opened
NoImdb == [version |-> -1, data |-> <<>>]

NewSelf ==
  [state |-> "new", verbose |-> FALSE, T_encoder |-> 0, load_gt_layout |-> FALSE,
   load_answer |-> FALSE, first_element_idx |-> 0, T_decoder |-> 0,
   prune_filter_module |-> FALSE, return_info |-> FALSE]

\* value of data_params[k] if the key is present, else d
ParamOr(k, d) == IF k \in DOMAIN data_params THEN data_params[k] ELSE d

\* the resources opened, in order, up to the point where __init__ stops
InitLoads(npy, version_ok, layout_ok) ==
  IF ~npy THEN <<>>
  ELSE IF ~version_ok THEN <<"imdb", "vocab_question_file">>
  ELSE IF ~layout_ok THEN <<"imdb", "vocab_question_file", "vocab_answer_file">>
  ELSE <<"imdb", "vocab_question_file", "vocab_answer_file", "features_db">>

InitError(npy, version_ok, layout_ok) ==
  IF ~npy THEN "TypeError: unknown imdb format."
  ELSE IF ~version_ok THEN "TypeError: imdb version do not match."
  ELSE IF ~layout_ok THEN "KeyError"
  ELSE ""

\* ctor_args.npy: imdb_file ends with '.npy'; ctor_args.load_answer and
\* ctor_args.first_element_idx are the fields the base class sets.
Construct ==
  /\ self.state = "new"
  /\ LET npy == ctor_args.npy
         version_ok == imdb_file.version = imdb_version
         lgl == ParamOr("load_gt_layout", FALSE)
         layout_ok == lgl => {"T_decoder", "assembler"} \subseteq DOMAIN data_params
         err == InitError(npy, version_ok, layout_ok)
     IN /\ raised' = err
        /\ imdb' = IF npy THEN imdb_file ELSE imdb    \* ImageDataset(imdb_file)
        /\ loaded' = InitLoads(npy, version_ok, layout_ok)
        /\ self' = IF err # "" THEN [NewSelf EXCEPT !.state = "failed"]
                   ELSE [state |-> "ready",
                         verbose |-> ctor_args.verbose,
                         T_encoder |-> data_params["T_encoder"],
                         load_gt_layout |-> lgl,
                         load_answer |-> ctor_args.load_answer,
                         first_element_idx |-> ctor_args.first_element_idx,
                         T_decoder |-> IF lgl THEN data_params["T_decoder"] ELSE 0,
                         prune_filter_module |->
                            IF lgl THEN ParamOr("prune_filter_module", FALSE) ELSE FALSE,
                         return_info |-> lgl]
  /\ UNCHANGED <<imdb_file, feature_store, ctor_args, data_params, sample,
                 module_list, last_idx, ncalls, fn_args, scores>>

\* __len__
dataset_len == Len(imdb.data) - 1

(* ---------------------------- __getitem__ ------------------------------ *)
\* lines 89-96: question encoding
EncodeQuestion_readlen(question_tokens, T_encoder) ==
  LET question_inds == [i \in 1..Len(question_tokens) |->
                           word2idx(vocab_dict, question_tokens[i])]
      read_len == Min(Len(question_inds), T_encoder)
  IN [input_seq |-> SliceAssign(Rep(0, T_encoder), read_len, SubSeq(question_inds, 1, read_len)),
      seq_length |-> read_len]

EncodeQuestion(question_tokens, T_encoder) ==
  LET question_inds == [i \in 1..Len(question_tokens) |->
                           word2idx(vocab_dict, question_tokens[i])]
      seq_length == Len(question_inds)
      read_len == Min(seq_length, T_encoder)
  IN [input_seq |-> SliceAssign(Rep(0, T_encoder), read_len,
                                 SubSeq(question_inds, 1, read_len)),
      seq_length |-> seq_length]
\* lines 100-121: answer resolution; r is the position np.random.choice draws
ValidFill == Rep(-1, NumValidAnswers)

ChoiceSet(iminfo, load_answer) ==
  IF load_answer /\ "answer_tokens" \notin DOMAIN iminfo
     /\ "valid_answers_tokens" \in DOMAIN iminfo
     /\ Len(iminfo["valid_answers_tokens"]) > 0
  THEN 1..Len(iminfo["valid_answers_tokens"])
  ELSE {1}

ResolveAnswers_dedup(iminfo, load_answer, r) ==
  LET zeros == Rep(0, num_vocab(answer_dict))
      dflt == [err |-> "", answer_tokens |-> None,
               valid_answers_idx |-> ValidFill, answer_scores |-> zeros]
  IN IF ~load_answer THEN dflt
     ELSE IF "answer_tokens" \in DOMAIN iminfo
     THEN [dflt EXCEPT !.answer_tokens = iminfo["answer_tokens"]]
     ELSE IF "valid_answers_tokens" \in DOMAIN iminfo
     THEN LET vat == iminfo["valid_answers_tokens"]
              ans_idx == [i \in 1..Len(vat) |-> word2idx(answer_dict, vat[i])]
              uniq == SelectSeq([i \in 1..Len(vat) |->
                                   IF \E j \in 1..(i - 1) : ans_idx[j] = ans_idx[i]
                                   THEN -1 ELSE ans_idx[i]], LAMBDA x : x # -1)
          IN IF Len(vat) = 0 THEN [dflt EXCEPT !.err = "ValueError"]
             ELSE IF SliceAssignErr(ValidFill, Len(vat), ans_idx) # ""
             THEN [dflt EXCEPT !.err = "ValueError"]
             ELSE [err |-> "", answer_tokens |-> vat[r],
                   valid_answers_idx |-> SliceAssign(ValidFill, Len(uniq), uniq),
                   answer_scores |->
                      compute_answer_scores(ans_idx, num_vocab(answer_dict),
                                            answer_dict.UNK_idx)]
     ELSE dflt

ResolveAnswers(iminfo, load_answer, r) ==
  LET zeros == Rep(0, num_vocab(answer_dict))
      dflt == [err |-> "", answer_tokens |-> None,
               valid_answers_idx |-> ValidFill, answer_scores |-> zeros]
  IN IF ~load_answer THEN dflt
     ELSE IF "answer_tokens" \in DOMAIN iminfo
     THEN [dflt EXCEPT !.answer_tokens = iminfo["answer_tokens"]]
     ELSE IF "valid_answers_tokens" \in DOMAIN iminfo
     THEN LET vat == iminfo["valid_answers_tokens"]
              ans_idx == [i \in 1..Len(vat) |-> word2idx(answer_dict, vat[i])]
          IN IF Len(vat) = 0
             THEN [dflt EXCEPT !.err = "ValueError"]   \* np.random.choice([])
             ELSE IF SliceAssignErr(ValidFill, Len(vat), ans_idx) # ""
             THEN [dflt EXCEPT !.err = SliceAssignErr(ValidFill, Len(vat), ans_idx)]
             ELSE [err |-> "", answer_tokens |-> vat[r],
                   valid_answers_idx |-> SliceAssign(ValidFill, Len(vat), ans_idx),
                   answer_scores |->
                      compute_answer_scores(ans_idx, num_vocab(answer_dict),
                                            answer_dict.UNK_idx)]
     ELSE dflt

\* lines 126-129: the in-place loop, n_t is the Python index
RECURSIVE PruneLoop_filteronly(_, _)
PruneLoop_filteronly(toks, n_t) ==
  IF n_t < 1 THEN toks
  ELSE PruneLoop_filteronly(
         IF toks[n_t] \in {"_Filter"} /\ toks[n_t + 1] = "_Filter"
         THEN [toks EXCEPT ![n_t + 1] = None] ELSE toks,
         n_t - 1)

RECURSIVE PruneLoop_stopearly(_, _)
PruneLoop_stopearly(toks, n_t) ==
  IF n_t < 2 THEN toks
  ELSE PruneLoop_stopearly(
         IF toks[n_t] \in {"_Filter", "_Find"} /\ toks[n_t + 1] = "_Filter"
         THEN [toks EXCEPT ![n_t + 1] = None] ELSE toks,
         n_t - 1)

RECURSIVE PruneLoop(_, _)
PruneLoop(toks, n_t) ==
  IF n_t < 1 THEN toks
  ELSE PruneLoop(
         IF toks[n_t] \in {"_Filter", "_Find"} /\ toks[n_t + 1] = "_Filter"
         THEN [toks EXCEPT ![n_t + 1] = None] ELSE toks,
         n_t - 1)

\* line 130: [t for t in gt_layout_tokens if t]
Truthy(t) == t \notin {None, ""}

\* lines 137-143
FeatureKeyNames ==
  <<"image_feature_0", "image_feature_1", "image_feature_2", "image_feature_3",
    "image_feature_4", "image_feature_5", "image_feature_6", "image_feature_7">>

FeatKey(j) == FeatureKeyNames[j + 1]

RECURSIVE MergeLoop_nobreak(_, _, _, _)
MergeLoop_nobreak(image_features, idx, n, acc) ==
  IF idx >= n THEN acc
  ELSE IF FeatKey(idx) \in DOMAIN image_features
  THEN MergeLoop_nobreak(image_features, idx + 1, n,
                 acc @@ (FeatKey(idx) :> image_features[FeatKey(idx)]))
  ELSE MergeLoop_nobreak(image_features, idx + 1, n, acc)

RECURSIVE MergeLoop(_, _, _, _)
MergeLoop(image_features, idx, n, acc) ==
  IF idx >= n THEN acc
  ELSE IF FeatKey(idx) \in DOMAIN image_features
  THEN MergeLoop(image_features, idx + 1, n,
                 acc @@ (FeatKey(idx) :> image_features[FeatKey(idx)]))
  ELSE acc

\* lines 145-151
MergeInfo(image_features, acc) ==
  IF "image_info_0" \in DOMAIN image_features
  THEN LET info == image_features["image_info_0"]
           a1 == IF "max_bboxes" \in DOMAIN info
                 THEN acc @@ ("image_dim" :> info["max_bboxes"]) ELSE acc
       IN IF "bboxes" \in DOMAIN info
          THEN a1 @@ ("image_boxes" :> info["bboxes"]) ELSE a1
  ELSE acc

GetItem(idx, r) ==
  /\ self.state = "ready"
  /\ ncalls < MaxCalls
  /\ LET pos == idx + self.first_element_idx
         iminfo == imdb.data[pos + 1]
         q == EncodeQuestion(iminfo["question_tokens"], self.T_encoder)
         image_features == feature_store[pos + 1]
         ans == ResolveAnswers(iminfo, self.load_answer, r)
         pruning == self.load_gt_layout /\ self.prune_filter_module
         marked == IF pruning
                   THEN PruneLoop(iminfo["gt_layout_tokens"],
                                  Len(iminfo["gt_layout_tokens"]) - 1)
                   ELSE iminfo["gt_layout_tokens"]
         gt_layout_tokens == IF pruning THEN SelectSeq(marked, Truthy) ELSE marked
         iminfo_after == [iminfo EXCEPT !["gt_layout_tokens"] = marked]
         s0 == ("input_seq_batch" :> q.input_seq) @@ ("seq_length_batch" :> q.seq_length)
         s1 == MergeLoop(image_features, 0, Cardinality(DOMAIN image_features), s0)
         s2 == MergeInfo(image_features, s1)
         s3 == IF self.load_answer
               THEN s2 @@ ("answer_label_batch" :> word2idx(answer_dict, ans.answer_tokens))
               ELSE s2
         s4 == IF self.load_gt_layout
               THEN s3 @@ ("gt_layout_batch" :>
                              module_list2tokens(gt_layout_tokens, self.T_decoder))
               ELSE s3
         s5 == s4 @@ ("valid_ans_label_batch" :> ans.valid_answers_idx)
                  @@ ("answers" :> ans.answer_scores)
         s6 == IF self.verbose THEN s5 @@ ("verbose_info" :> iminfo_after) ELSE s5
     IN /\ r \in ChoiceSet(iminfo, self.load_answer)
        /\ IF ans.err # ""
           THEN /\ raised' = ans.err
                /\ sample' = EmptyDict
                /\ module_list' = <<>>
                /\ imdb' = imdb
           ELSE /\ raised' = ""
                /\ sample' = s6
                /\ module_list' = IF self.load_gt_layout THEN <<gt_layout_tokens>> ELSE <<>>
                /\ imdb' = [imdb EXCEPT !.data[pos + 1] = iminfo_after]
  /\ last_idx' = idx
  /\ ncalls' = ncalls + 1
  /\ UNCHANGED <<imdb_file, feature_store, ctor_args, data_params, self, loaded,
                 fn_args, scores>>
(* ------------------- compute_answer_scores, called alone --------------- *)
NoArgs == [answers |-> <<>>, num_of_answers |-> 0, unk_idx |-> 0]

ComputeAnswerScores ==
  /\ fn_args.num_of_answers > 0
  /\ scores = <<>>
  /\ scores' = compute_answer_scores(fn_args.answers, fn_args.num_of_answers,
                                     fn_args.unk_idx)
  /\ UNCHANGED <<imdb_file, imdb, feature_store, ctor_args, data_params, self, loaded, raised,
                 sample, module_list, last_idx, ncalls, fn_args>>

(* ------------------------------ inputs --------------------------------- *)
Versions == {imdb_version, imdb_version + 1}

QuestionWords == {"what", "color", "zzz"}
AnswerWords == {"yes", "no", "zzz"}
LayoutWords == {"_Find", "_Filter", "_Describe"}

BaseRec ==
  [question_tokens |-> <<"what", "color">>, answer_tokens |-> "yes",
   gt_layout_tokens |-> <<"_Find", "_Describe">>]

OtherRec ==
  [question_tokens |-> <<"zzz">>, valid_answers_tokens |-> <<"no", "no", "yes">>,
   gt_layout_tokens |-> <<"_Find", "_Filter">>]

BaseRecs == {BaseRec, OtherRec}

QuestionRecs ==
  {[BaseRec EXCEPT !["question_tokens"] = q] : q \in SeqUpTo(QuestionWords, MaxQ)}

LayoutRecs ==
  {[BaseRec EXCEPT !["gt_layout_tokens"] = l] : l \in SeqUpTo(LayoutWords, MaxLayout)}

\* annotation lists: a run of one answer followed by a run of another
AnnotationLists ==
  {Rep(a, i) \o Rep(b, j) : <<a, b, i, j>> \in
      {t \in AnswerWords \X AnswerWords \X (0..MaxAnn) \X (0..MaxAnn) :
          t[3] + t[4] <= MaxAnn}}

NoAnswerRec ==
  [question_tokens |-> <<"what">>, gt_layout_tokens |-> <<"_Find", "_Describe">>]

AnswerRecs ==
  {NoAnswerRec @@ one @@ many :
     one \in {EmptyDict} \cup {("answer_tokens" :> a) : a \in {"no", "zzz"}},
     many \in {EmptyDict} \cup {("valid_answers_tokens" :> l) : l \in AnnotationLists}}

InfoDicts ==
  {[k \in K |-> IF k = "max_bboxes" THEN 100 ELSE "bboxes"] :
     K \in SUBSET {"max_bboxes", "bboxes"}}

FeatureMaps ==
  {[k \in {FeatKey(j) : j \in S} |-> <<"array", k>>] @@ info :
     S \in SUBSET (0..(MaxSlots - 1)),
     info \in {EmptyDict} \cup {("image_info_0" :> d) : d \in InfoDicts}}

BaseFeatures == ("image_feature_0" :> <<"array", "image_feature_0">>)

PlainParams == {("T_encoder" :> t) : t \in 0..MaxT}

LayoutParams ==
  {("T_encoder" :> MaxT) @@ ("T_decoder" :> MaxLayout) @@ ("assembler" :> "assembler") @@ l @@ p :
     l \in {EmptyDict, ("load_gt_layout" :> FALSE), ("load_gt_layout" :> TRUE)},
     p \in {EmptyDict, ("prune_filter_module" :> FALSE), ("prune_filter_module" :> TRUE)}}

Ctors(verboses, load_answers) ==
  [npy : BOOLEAN, verbose : verboses, load_answer : load_answers,
   first_element_idx : {0, 1}]

InitDataset(Recs, Stores, Params, CtorArgs) ==
  /\ imdb_file \in {[version |-> v, data |-> <<r1, r2, BaseRec>>] :
                      v \in Versions, r1 \in Recs, r2 \in BaseRecs}
  /\ imdb = NoImdb
  /\ feature_store \in {<<m1, BaseFeatures, BaseFeatures>> : m1 \in Stores}
  /\ data_params \in Params
  /\ ctor_args \in CtorArgs
  /\ self = NewSelf
  /\ loaded = <<>>
  /\ raised = ""
  /\ sample = EmptyDict
  /\ module_list = <<>>
  /\ last_idx = -1
  /\ ncalls = 0
  /\ scores = <<>>

ScoreArgs ==
  {[answers |-> a, num_of_answers |-> num_vocab(answer_dict), unk_idx |-> u] :
     a \in SeqUpTo(0..(num_vocab(answer_dict) - 1), MaxScoreAnn),
     u \in 0..(num_vocab(answer_dict) - 1)}

Init ==
  /\ InitDataset(QuestionRecs, {BaseFeatures}, PlainParams, Ctors({FALSE}, {TRUE}))
  /\ fn_args = NoArgs

InitAnswers ==
  /\ InitDataset(AnswerRecs, {BaseFeatures}, {("T_encoder" :> MaxT)},
                 Ctors({FALSE}, BOOLEAN))
  /\ fn_args = NoArgs

InitLayout ==
  /\ InitDataset(LayoutRecs, {BaseFeatures}, LayoutParams, Ctors(BOOLEAN, {FALSE}))
  /\ fn_args = NoArgs

InitFeatures ==
  /\ InitDataset({BaseRec}, FeatureMaps, {("T_encoder" :> MaxT)},
                 Ctors({FALSE}, {FALSE}))
  /\ fn_args = NoArgs

InitScores ==
  /\ InitDataset({BaseRec}, {BaseFeatures}, {("T_encoder" :> MaxT)},
                 Ctors({FALSE}, {FALSE}))
  /\ fn_args \in ScoreArgs

Next ==
  \/ Construct
  \/ \E idx \in 0..(dataset_len - 1), r \in 1..MaxAnn : GetItem(idx, r)

NextScores == ComputeAnswerScores

Spec == Init /\ [][Next]_vars
SpecAnswers == InitAnswers /\ [][Next]_vars
SpecLayout == InitLayout /\ [][Next]_vars
SpecFeatures == InitFeatures /\ [][Next]_vars
SpecScores == InitScores /\ [][NextScores]_vars
(* ------------------------------ properties ----------------------------- *)
\* the most recent __getitem__ returned a sample
Returned == ncalls > 0 /\ raised = ""

\* the most recent __getitem__ was called and either returned or raised
Called == ncalls > 0

LastPos == last_idx + self.first_element_idx

\* the record the most recent call read, as it is stored now
LastRec == imdb.data[LastPos + 1]

GetStep == ncalls' = ncalls + 1

Occurrences(s, a) == Cardinality({i \in 1..Len(s) : s[i] = a})

\* C1: a returned sample's input_seq_batch has length T_encoder, starts with
\* the vocabulary indices of the first min(L, T_encoder) question tokens, is
\* 0 afterwards, and seq_length_batch is the untruncated token count L.
C1_QuestionEncoding ==
  Returned =>
    LET toks == LastRec["question_tokens"]
        seq == sample["input_seq_batch"]
    IN /\ Len(seq) = self.T_encoder
       /\ \A i \in 1..self.T_encoder :
             seq[i] = IF i <= Len(toks) THEN word2idx(vocab_dict, toks[i]) ELSE 0
       /\ sample["seq_length_batch"] = Len(toks)

C1_Witness ==
  /\ Returned
  /\ Len(LastRec["question_tokens"]) > self.T_encoder
  /\ self.T_encoder >= 1
  /\ sample["input_seq_batch"][1] # 0
  /\ sample["seq_length_batch"] = Len(LastRec["question_tokens"])

\* C2: compute_answer_scores returns num_of_answers scores; an index other
\* than unk_idx occurring k >= 1 times scores min(0.3 k, 1.0), which is 1.0
\* from k = 4 on; unk_idx scores 0; an index that does not occur scores 0.
C2_AnswerScores ==
  scores # <<>> =>
    /\ Len(scores) = fn_args.num_of_answers
    /\ \A a \in 0..(fn_args.num_of_answers - 1) :
          LET k == Occurrences(fn_args.answers, a)
          IN scores[a + 1] = IF a = fn_args.unk_idx \/ k = 0 THEN 0
                             ELSE IF k >= 4 THEN 10 ELSE 3 * k

C2_Witness ==
  /\ scores # <<>>
  /\ Occurrences(fn_args.answers, fn_args.unk_idx) >= 2
  /\ scores[fn_args.unk_idx + 1] = 0
  /\ \E a \in 0..(fn_args.num_of_answers - 1) :
        a # fn_args.unk_idx /\ Occurrences(fn_args.answers, a) = 3 /\ scores[a + 1] = 9

\* the record the most recent call read, as the index database file has it
LastFileRec == imdb_file.data[LastPos + 1]

\* the tokens of toks at the positions in S, in order
RECURSIVE TokensAt(_, _, _)
TokensAt(toks, S, i) ==
  IF i > Len(toks) THEN <<>>
  ELSE (IF i \in S THEN <<toks[i]>> ELSE <<>>) \o TokensAt(toks, S, i + 1)

\* toks without every "_Filter" that directly follows "_Filter" or "_Find"
WithoutFollowingFilters(toks) ==
  TokensAt(toks,
           {i \in 1..Len(toks) :
              ~(i > 1 /\ toks[i] = "_Filter" /\ toks[i - 1] \in {"_Filter", "_Find"})},
           1)

Pruning == self.load_gt_layout /\ self.prune_filter_module

\* C3: with pruning on, the list handed to the assembler is the record's
\* token list from the index database without every "_Filter" that directly
\* follows "_Filter" or "_Find"; every other token, the first included, is
\* kept, in order.
C3_PruneRule ==
  (Returned /\ Pruning) =>
     module_list = <<WithoutFollowingFilters(LastFileRec["gt_layout_tokens"])>>

C3_Witness ==
  /\ Returned
  /\ Pruning
  /\ Len(LastFileRec["gt_layout_tokens"]) = 4
  /\ LastFileRec["gt_layout_tokens"][1] = "_Filter"
  /\ LastFileRec["gt_layout_tokens"][2] = "_Describe"
  /\ LastFileRec["gt_layout_tokens"][3] = "_Find"
  /\ LastFileRec["gt_layout_tokens"][4] = "_Filter"
  /\ module_list = << <<"_Filter", "_Describe", "_Find">> >>

C4List == <<"_Find", "_Filter", "_Filter", "_Describe">>

\* C4 as stated: [_Find,_Filter,_Filter,_Describe] is pruned to
\* [_Find,_Filter,_Describe].
C4_KeepsFirstFilter ==
  (Returned /\ Pruning /\ LastFileRec["gt_layout_tokens"] = C4List)
     => module_list = << <<"_Find", "_Filter", "_Describe">> >>

\* C4 amended: [_Find,_Filter,_Filter,_Describe] is pruned to
\* [_Find,_Describe]: both "_Filter" tokens are removed, the first because it
\* follows "_Find", the second because it follows "_Filter".
C4_RemovesBothFilters ==
  (Returned /\ Pruning /\ LastFileRec["gt_layout_tokens"] = C4List)
     => module_list = << <<"_Find", "_Describe">> >>

C4_Witness ==
  /\ Returned
  /\ Pruning
  /\ LastFileRec["gt_layout_tokens"] = C4List
  /\ module_list = << <<"_Find", "_Describe">> >>

\* C5: a returned sample has valid_ans_label_batch and answers only if
\* load_answer is set and the record has valid_answers_tokens.
C5_ValidAnswerFieldsOptional ==
  (Returned /\ {"valid_ans_label_batch", "answers"} \cap DOMAIN sample # {})
     => (self.load_answer /\ "valid_answers_tokens" \in DOMAIN LastRec)

\* C6: construction against a database of another version raises, and by
\* then neither vocabulary file is loaded nor the feature store constructed.
C6_VersionCheckedBeforeLoading ==
  (self.state = "failed" /\ ctor_args.npy /\ imdb_file.version # imdb_version)
     => /\ raised # ""
        /\ Range(loaded) \cap
             {"vocab_question_file", "vocab_answer_file", "features_db"} = {}

\* what C7 says of a record with k annotations: ten slots, the first k the
\* answer-vocabulary indices in annotation order, the rest -1
PaddedAnnotations(rec) ==
  /\ raised = ""
  /\ "valid_ans_label_batch" \in DOMAIN sample
  /\ LET vat == rec["valid_answers_tokens"]
         v == sample["valid_ans_label_batch"]
     IN /\ Len(v) = 10
        /\ \A i \in 1..10 :
              v[i] = IF i <= Len(vat) THEN word2idx(answer_dict, vat[i]) ELSE -1

MultiAnnotated ==
  /\ Called
  /\ self.load_answer
  /\ "valid_answers_tokens" \in DOMAIN LastRec
  /\ "answer_tokens" \notin DOMAIN LastRec

\* C7 as stated: for 0 <= k <= 10 annotations the sample's
\* valid_ans_label_batch is the k indices followed by -1 up to length 10.
C7_PaddingFromZero ==
  (MultiAnnotated /\ Len(LastRec["valid_answers_tokens"]) <= 10)
     => PaddedAnnotations(LastRec)

\* C7 amended: for 1 <= k <= 10 annotations the sample's
\* valid_ans_label_batch is the k indices, in annotation order and one per
\* annotation, followed by -1 up to length 10; for k = 0 the call raises.
C7_PaddingFromOne ==
  /\ (MultiAnnotated /\ Len(LastRec["valid_answers_tokens"]) \in 1..10)
        => PaddedAnnotations(LastRec)
  /\ (MultiAnnotated /\ Len(LastRec["valid_answers_tokens"]) = 0)
        => (raised # "" /\ DOMAIN sample = {})

C7_Witness ==
  /\ MultiAnnotated
  /\ LastRec["valid_answers_tokens"] = <<"no", "no", "yes">>
  /\ sample["valid_ans_label_batch"] = <<2, 2, 1, -1, -1, -1, -1, -1, -1, -1>>

\* C8 as stated: with load_answer and more than 10 annotations the call
\* raises and returns no sample.
C8_OverflowAlwaysRaises ==
  (Called /\ self.load_answer /\ "valid_answers_tokens" \in DOMAIN LastRec
   /\ Len(LastRec["valid_answers_tokens"]) > 10)
     => (raised # "" /\ DOMAIN sample = {})

\* C8 amended: with load_answer, no answer_tokens field and more than 10
\* annotations the call raises and returns no sample; every sample that is
\* returned has a valid_ans_label_batch of length 10.
C8_OverflowRaises ==
  /\ (MultiAnnotated /\ Len(LastRec["valid_answers_tokens"]) > 10)
        => (raised # "" /\ DOMAIN sample = {})
  /\ Returned => Len(sample["valid_ans_label_batch"]) = 10

C8_Witness ==
  /\ MultiAnnotated
  /\ Len(LastRec["valid_answers_tokens"]) = 11
  /\ raised = "ValueError"
  /\ DOMAIN sample = {}

\* C9: __getitem__ leaves every record of the index database as it was
\* loaded, and verbose_info carries the record's original tokens.
C9_RecordsUntouched ==
  self.state = "ready" =>
    /\ imdb.data = imdb_file.data
    /\ (Returned /\ "verbose_info" \in DOMAIN sample)
          => sample["verbose_info"] = LastFileRec

\* C10: the sample has image_feature_k exactly when the feature store's
\* mapping has image_feature_j for every j in 0..k, and then with the
\* store's value; a slot behind a gap is not copied and a run from slot 0 is
\* copied whole.
C10_FeatureMerge ==
  Returned =>
    \A k \in 0..(Len(FeatureKeyNames) - 1) :
       LET image_features == feature_store[LastPos + 1]
           run == \A j \in 0..k : FeatKey(j) \in DOMAIN image_features
       IN /\ (FeatKey(k) \in DOMAIN sample) <=> run
          /\ run => sample[FeatKey(k)] = image_features[FeatKey(k)]

C10_Witness ==
  /\ Returned
  /\ {k \in DOMAIN feature_store[LastPos + 1] : k \in Range(FeatureKeyNames)}
        = {"image_feature_0", "image_feature_1", "image_feature_3"}
  /\ "image_info_0" \in DOMAIN feature_store[LastPos + 1]
  /\ {k \in DOMAIN sample : k \in Range(FeatureKeyNames)}
        = {"image_feature_0", "image_feature_1"}
====
